---- MODULE Spec2Model ----
(***************************************************************************)
(* Model of streamlit_app.py: the language selectors and the translation   *)
(* cache (perform_translation), the column-name translation, the memoized  *)
(* fetcher (fetch_url_text under lru_cache), the summarizer and the        *)
(* session's summary cache, as driven by reruns of the Streamlit script.   *)
(*                                                                         *)
(* Text is modelled as a sequence of tokens, each token a run of           *)
(* characters, so that prefix tests, splits and delimiter scans are        *)
(* computed the way the Python string methods compute them.               *)
(***************************************************************************)
EXTENDS Naturals, Integers, Sequences, FiniteSets, TLC

VARIABLES
    current_lang,        \* st.session_state.current_lang
    translations,        \* st.session_state.translations : language -> UI dict
    translated_strings,  \* st.session_state.translated_strings
    summary_dict,        \* st.session_state.summary_dict : key -> summary text
    language_selector,   \* value of the top selectbox (key "language_selector")
    lang_selector,       \* value of the sidebar selectbox (key "lang_selector")
    search_query,        \* value of the search text_input
    uploaded_files,      \* value of the file_uploader: sequence of uploads
    clicked,             \* index of the summarize button pressed for this run, or NoClick
    buttons,             \* indices of the summarize buttons rendered by the last run
    fetch_cache,         \* lru_cache of fetch_url_text: <<url, value>> pairs, least recent first
    pc,                  \* position of the script run
    loc_strings,         \* search_page's local translated_strings (line 405)
    df_columns,          \* df.columns of the current run
    calls,               \* the function calls made by the last step, per function,
                         \* with their arguments, results and model/network use
    returned,            \* url -> value fetch_url_text last returned for it, for the
                         \* urls not evicted since
    accessed,            \* the urls fetch_url_text was called with, least recent call first
    summary_source,      \* catalog-row summary key -> ID of the catalog row whose button
                         \* press stored the value now under the key
    cols_done,           \* the languages translate_list_via_gemini has returned a list for
    widget_index,        \* the index argument each selectbox was last rendered with,
                         \* as the language it stands for
    threads              \* the calls of fetch_url_text made by concurrent sessions:
                         \* per session its position in the lru_cache wrapper

vars == <<current_lang, translations, translated_strings, summary_dict,
          language_selector, lang_selector, search_query, uploaded_files,
          clicked, buttons, fetch_cache, pc, loc_strings, df_columns,
          calls, returned, accessed, summary_source, cols_done,
          widget_index, threads>>

session_vars == <<current_lang, translations, translated_strings, summary_dict>>
widget_vars  == <<language_selector, lang_selector, search_query, uploaded_files>>

----------------------------------------------------------------------------
(* Sequence helpers: str.find, str.rfind, slicing.                          *)

\* str.find(tok): index of the first occurrence, 0 when absent (Python's -1)
Find(text, tok) ==
    IF \E i \in 1..Len(text) : text[i] = tok
    THEN CHOOSE i \in 1..Len(text) :
            /\ text[i] = tok
            /\ \A j \in 1..(i-1) : text[j] # tok
    ELSE 0

\* str.rfind(tok): index of the last occurrence, 0 when absent
RFind(text, tok) ==
    IF \E i \in 1..Len(text) : text[i] = tok
    THEN CHOOSE i \in 1..Len(text) :
            /\ text[i] = tok
            /\ \A j \in (i+1)..Len(text) : text[j] # tok
    ELSE 0

\* d[k] = v on a Python dict
DictSet(d, k, v) == [x \in DOMAIN d \cup {k} |-> IF x = k THEN v ELSE d[x]]

----------------------------------------------------------------------------
(* The UI dictionary and the languages.                                     *)

UI_STRINGS_EN ==
    [k \in {"title", "description", "upload_label", "ask_label", "response_label",
            "click_button", "translate_dataset_checkbox", "mention_label",
            "button_response", "pdf_upload_header", "pdf_success",
            "pdf_summary_title", "search_label", "results_header", "no_results",
            "summarize_button"} |->
        CASE k = "title" -> "Simplified Knowledge"
          [] k = "description" -> "A dynamic dashboard that summarizes NASA bioscience publications and explores impacts and results."
          [] k = "upload_label" -> "Upload CSV data"
          [] k = "ask_label" -> "Ask anything:"
          [] k = "response_label" -> "Response:"
          [] k = "click_button" -> "Click here, nothing happens"
          [] k = "translate_dataset_checkbox" -> "Translate dataset column names (may take time)"
          [] k = "mention_label" -> "Official NASA Website"
          [] k = "button_response" -> "Hooray"
          [] k = "pdf_upload_header" -> "Upload PDFs to Summarize"
          [] k = "pdf_success" -> "{count} PDF(s) uploaded and summarized"
          [] k = "pdf_summary_title" -> "Summary: {name}"
          [] k = "search_label" -> "Search publications..."
          [] k = "results_header" -> "Found {count} matching publications:"
          [] k = "no_results" -> "No matching publications found."
          [] OTHER -> "Gather & Summarize"]

\* The keys of LANGUAGES the model lets the user pick (three of the 53).
LANGUAGES == {"English", "Deutsch", "Dansk"}

----------------------------------------------------------------------------
(* The generative-text capability: model.generate_content(prompt) either    *)
(* raises or returns resp.text.  A response text is a sequence of tokens:   *)
(* the delimiters "{" "}" "[" "]", "txt" for prose without delimiters, and  *)
(* body tokens standing for the members of a JSON object or array.          *)

\* the value strings of a translation of the UI dictionary
Rendering(lang) ==
    CASE lang = "Deutsch" -> "Deutsch wording"
      [] OTHER            -> "Dansk wording"

\* what the members named by an object body token decode to
ObjectBody ==
    ("deAll"   :> [k \in DOMAIN UI_STRINGS_EN |-> Rendering("Deutsch")]) @@
    ("deMinus" :> [k \in DOMAIN UI_STRINGS_EN \ {"no_results"} |-> Rendering("Deutsch")]) @@
    ("daPlus"  :> [k \in DOMAIN UI_STRINGS_EN \cup {"note"} |-> Rendering("Dansk")])

\* what the elements named by an array body token decode to
ArrayBody ==
    ("deCols"  :> <<"Kennung", "Titel", "Verweis">>) @@
    ("deKeep"  :> <<"Kennung", "Title", "Verweis">>) @@
    ("deShort" :> <<"Kennung", "Titel">>) @@
    ("daCols"  :> <<"Id", "Titel", "Link">>) @@
    ("daLong"  :> <<"Id", "Title", "Link", "Note">>)

\* json.loads on a slice of the response: the slice is one JSON document or
\* the call raises json.JSONDecodeError
JsonLoads(span) ==
    IF Len(span) = 2 /\ span[1] = "{" /\ span[2] = "}"
    THEN [ok |-> TRUE, val |-> [k \in {} |-> ""]]
    ELSE IF Len(span) = 3 /\ span[1] = "{" /\ span[3] = "}" /\ span[2] \in DOMAIN ObjectBody
    THEN [ok |-> TRUE, val |-> ObjectBody[span[2]]]
    ELSE IF Len(span) = 2 /\ span[1] = "[" /\ span[2] = "]"
    THEN [ok |-> TRUE, val |-> <<>>]
    ELSE IF Len(span) = 3 /\ span[1] = "[" /\ span[3] = "]" /\ span[2] \in DOMAIN ArrayBody
    THEN [ok |-> TRUE, val |-> ArrayBody[span[2]]]
    ELSE [ok |-> FALSE, val |-> "JSONDecodeError"]

\* text[start:end+1] with Python's 0-based start/end given 1-based here
Slice(text, start, end) == SubSeq(text, start, end)

extract_json_from_text(text) ==
    LET start == Find(text, "{")
        end   == RFind(text, "}")
    IN  IF start = 0 \/ end = 0
        THEN [ok |-> FALSE, val |-> "ValueError"]
        ELSE JsonLoads(Slice(text, start, end))

\* outcomes of model.generate_content(prompt).text for the dictionary prompt
GeminiDictOutcomes(target_lang_name) ==
    {[raised |-> TRUE, text |-> <<>>]} \cup
    {[raised |-> FALSE, text |-> t] : t \in
        IF target_lang_name = "Deutsch"
        THEN { <<"{", "deAll", "}">>,
               <<"txt", "{", "deAll", "}", "txt">>,
               <<"{", "deMinus", "}">>,
               <<"txt">>,
               <<"{", "deAll", "}", "txt", "}">> }
        ELSE { <<"txt", "{", "daPlus", "}">>,
               <<"}", "txt", "{">> } }

\* translate_dict_via_gemini: the parsed object, or the exception re-raised
translate_dict_via_gemini(source_dict, target_lang_name, out) ==
    IF out.raised
    THEN [ok |-> FALSE, val |-> "Exception"]
    ELSE extract_json_from_text(out.text)

\* outcomes of model.generate_content(prompt).text for the column-list prompt
GeminiListOutcomes(target_lang_name) ==
    {[raised |-> TRUE, text |-> <<>>]} \cup
    {[raised |-> FALSE, text |-> t] : t \in
        IF target_lang_name = "Deutsch"
        THEN { <<"[", "deCols", "]">>,
               <<"txt", "[", "deKeep", "]", "txt">>,
               <<"[", "deShort", "]">>,
               <<"[", "deCols", "]", "txt", "[", "]">> }
        ELSE { <<"[", "daCols", "]">>,
               <<"[", "daLong", "]">>,
               <<"txt">> } }

\* translate_list_via_gemini: the parsed array, or the exception re-raised
translate_list_via_gemini(items, target_lang_name, out) ==
    IF out.raised
    THEN [ok |-> FALSE, val |-> "Exception"]
    ELSE LET start == Find(out.text, "[")
             end   == RFind(out.text, "]")
         IN  IF start = 0 \/ end = 0
             THEN [ok |-> FALSE, val |-> "ValueError"]
             ELSE JsonLoads(Slice(out.text, start, end))

----------------------------------------------------------------------------
(* The catalog (SB_publication_PMC.csv as loaded by load_data).             *)

MODEL_NAME == "gemini-2.5-flash"

\* list(df.columns) as loaded
original_cols == <<"ID", "Title", "Link">>

\* number of catalog rows
NumRows == 129

\* a URL: scheme and host are the same for all, then the document number,
\* the extension ending the path and the query string after it
Url(doc, ext, query) == [doc |-> doc, ext |-> ext, query |-> query]

\* the Link of catalog row i
LinkOf(i) ==
    CASE i = 1   -> Url(1, ".html", "")
      [] i = 2   -> Url(2, ".PDF", "")
      [] i = 3   -> Url(3, ".pdf", "?download=1")
      [] OTHER   -> Url(i, "", "")

\* the words a search can find in the Title of catalog row i
TitleWords(i) ==
    CASE i = 1   -> {"bone", "microgravity"}
      [] i = 2   -> {"bone"}
      [] i = 3   -> {"immune"}
      [] OTHER   -> {"other"}

\* the rows of the DataFrame, values in column order
Catalog == [i \in 1..NumRows |-> <<i, TitleWords(i), LinkOf(i)>>]

\* what the user types into the search box
Queries == {"", "bone", "immune"}

----------------------------------------------------------------------------
(* fetch_url_text: the GET, the branch on the content type, the extraction. *)

\* str.lower() of an extension
Lower(ext) == IF ext = ".PDF" THEN ".pdf" ELSE ext

\* url.lower().endswith(".pdf")
UrlEndsWithPdf(url) ==
    IF url.query = "" THEN Lower(url.ext) = ".pdf" ELSE FALSE

\* "pdf" in content_type, content_type already lower-cased
PdfInContentType(content_type) ==
    content_type \in {"application/pdf", "application/pdf; charset=binary"}

\* r.headers.get("Content-Type", "").lower()
LowerContentType(header) ==
    IF header = "Application/PDF" THEN "application/pdf" ELSE header

HtmlLimit == 25000

\* r.raise_for_status(): HTTPError for a 4xx or 5xx status
RaiseForStatus(status) == status >= 400 /\ status < 600

\* the outcomes of requests.get(url) the model lets the network produce:
\* a RequestException raised by the request (raised, with its text as
\* detail), or a response with its status (detail then being the text of
\* the HTTPError raise_for_status makes of it), its Content-Type header and
\* what the two parsers make of its content
Network(url) ==
    CASE url.doc = 1 ->
           { [raised |-> TRUE, status |-> 0,
              detail |-> <<"HTTPSConnectionPool", ": ", "Read timed out">>,
              header |-> "", pdf |-> [ok |-> FALSE, pages |-> <<>>, err |-> <<>>],
              html |-> [ok |-> FALSE, body |-> FALSE, text |-> <<>>, err |-> <<>>]],
             [raised |-> FALSE, status |-> 404,
              detail |-> <<"404 Client Error", ": ", "Not Found for url", ": ", "url">>,
              header |-> "text/html",
              pdf |-> [ok |-> FALSE, pages |-> <<>>, err |-> <<"EOF marker not found">>],
              html |-> [ok |-> TRUE, body |-> TRUE, text |-> <<"Page not found">>, err |-> <<>>]],
             [raised |-> FALSE, status |-> 200, detail |-> <<>>, header |-> "text/html",
              pdf |-> [ok |-> FALSE, pages |-> <<>>, err |-> <<"EOF marker not found">>],
              html |-> [ok |-> TRUE, body |-> TRUE,
                        text |-> <<"Spaceflight alters immune response.">>, err |-> <<>>]] }
      [] url.doc = 2 ->
           { [raised |-> FALSE, status |-> 200, detail |-> <<>>, header |-> "application/octet-stream",
              pdf |-> [ok |-> TRUE, pages |-> << <<"page one">>, <<>>, <<"page three">> >>, err |-> <<>>],
              html |-> [ok |-> TRUE, body |-> FALSE, text |-> <<>>, err |-> <<>>]],
             [raised |-> FALSE, status |-> 200, detail |-> <<>>, header |-> "Application/PDF",
              pdf |-> [ok |-> FALSE, pages |-> <<>>, err |-> <<"EOF marker not found">>],
              html |-> [ok |-> TRUE, body |-> FALSE, text |-> <<>>, err |-> <<>>]] }
      [] url.doc = 3 ->
           { [raised |-> FALSE, status |-> 200, detail |-> <<>>, header |-> "application/octet-stream",
              pdf |-> [ok |-> TRUE, pages |-> << <<"page one">> >>, err |-> <<>>],
              html |-> [ok |-> TRUE, body |-> FALSE, text |-> <<>>, err |-> <<>>]],
             [raised |-> FALSE, status |-> 200, detail |-> <<>>, header |-> "text/html",
              pdf |-> [ok |-> FALSE, pages |-> <<>>, err |-> <<"EOF marker not found">>],
              html |-> [ok |-> FALSE, body |-> FALSE, text |-> <<>>,
                        err |-> <<"maximum recursion depth exceeded">>]] }
      [] OTHER ->
           { [raised |-> FALSE, status |-> 200, detail |-> <<>>, header |-> "text/html",
              pdf |-> [ok |-> FALSE, pages |-> <<>>, err |-> <<"EOF marker not found">>],
              html |-> [ok |-> TRUE, body |-> FALSE, text |-> <<>>, err |-> <<>>]],
             [raised |-> FALSE, status |-> 200, detail |-> <<>>, header |-> "text/html",
              pdf |-> [ok |-> FALSE, pages |-> <<>>, err |-> <<"EOF marker not found">>],
              html |-> [ok |-> TRUE, body |-> TRUE, text |-> <<>>, err |-> <<>>]] }

\* "\n".join(p.extract_text() for p in reader.pages if p.extract_text())
RECURSIVE JoinPages(_)
JoinPages(pages) ==
    IF pages = <<>> THEN <<>>
    ELSE LET rest == JoinPages(Tail(pages))
         IN  IF Head(pages) = <<>> THEN rest
             ELSE IF \A i \in 1..Len(Tail(pages)) : Tail(pages)[i] = <<>>
                  THEN Head(pages)
                  ELSE Head(pages) \o <<"\n">> \o rest

\* lines 374-379: the PDF branch
PdfBranch(r) ==
    IF r.pdf.ok
    THEN JoinPages(r.pdf.pages)
    ELSE <<"ERROR", "_PDF_PARSE", ": ">> \o r.pdf.err

\* HtmlBranch returning an empty text for a document without a body
HtmlBranch_EmptyWithoutBody(r) ==
    IF r.html.ok
    THEN SubSeq(r.html.text, 1, IF Len(r.html.text) < HtmlLimit
                                 THEN Len(r.html.text) ELSE HtmlLimit)
    ELSE <<"ERROR", "_HTML_PARSE", ": ">> \o r.html.err

\* lines 381-387: the HTML branch; soup.body is None for a document without
\* a body element, and None.get_text raises AttributeError
HtmlBranch(r) ==
    IF r.html.ok /\ r.html.body
    THEN SubSeq(r.html.text, 1, IF Len(r.html.text) < HtmlLimit
                                 THEN Len(r.html.text) ELSE HtmlLimit)
    ELSE <<"ERROR", "_HTML_PARSE", ": ">> \o
         (IF r.html.ok THEN <<"'NoneType' object has no attribute 'get_text'">>
          ELSE r.html.err)

\* line 373
IsPdf(url, content_type) == PdfInContentType(content_type) \/ UrlEndsWithPdf(url)

\* the body of fetch_url_text for the response r
FetchBody(url, r) ==
    IF r.raised \/ RaiseForStatus(r.status)
    THEN <<"ERROR", "_FETCH", ": ">> \o r.detail
    ELSE IF IsPdf(url, LowerContentType(r.header))
    THEN PdfBranch(r)
    ELSE HtmlBranch(r)

\* the response recorded for a call that made no GET
NoResponse ==
    [raised |-> FALSE, status |-> 0, detail |-> <<>>, header |-> "",
     pdf |-> [ok |-> FALSE, pages |-> <<>>, err |-> <<>>],
     html |-> [ok |-> FALSE, body |-> FALSE, text |-> <<>>, err |-> <<>>]]

----------------------------------------------------------------------------
(* The lru_cache around fetch_url_text.                                     *)

maxsize == 128

\* position of url in the cache, 0 when absent
CachePos(cache, url) ==
    IF \E i \in 1..Len(cache) : cache[i][1] = url
    THEN CHOOSE i \in 1..Len(cache) : cache[i][1] = url
    ELSE 0

\* the sequence without its i-th element
RemoveAt(seq, i) == SubSeq(seq, 1, i-1) \o SubSeq(seq, i+1, Len(seq))

\* CacheHit leaving the order alone, which makes the eviction first-in first-out
CacheHit_NoRefresh(cache, url) == cache

\* a hit moves the entry to the most-recent end
CacheHit(cache, url) ==
    LET i == CachePos(cache, url)
    IN  RemoveAt(cache, i) \o <<cache[i]>>

\* a miss stores the value at the most-recent end, dropping the least
\* recently used entry when the cache is full
CacheInsert(cache, url, value) ==
    IF Len(cache) >= maxsize
    THEN Tail(cache) \o << <<url, value>> >>
    ELSE cache \o << <<url, value>> >>

----------------------------------------------------------------------------
(* summarize_text_with_gemini.                                              *)

\* text.startswith("ERROR")
StartsWithERROR(text) == Len(text) >= 1 /\ text[1] = "ERROR"

\* text.startswith("CRITICAL_ERROR")
StartsWithCRITICAL(text) == Len(text) >= 2 /\ text[1] = "CRITICAL_" /\ text[2] = "ERROR"

\* text.split(': ')[-1]
LastSegment(text) == SubSeq(text, RFind(text, ": ") + 1, Len(text))

\* outcomes of model.generate_content(prompt).text for the summary prompt
GeminiSummaryOutcomes ==
    { [raised |-> TRUE,  text |-> <<"429 quota exceeded">>],
      [raised |-> FALSE, text |-> <<"### Key Findings", "### Overview Summary">>] }

\* summarize_text_with_gemini testing only "not text"
summarize_text_with_gemini_EmptyOnly(text, out) ==
    IF text = <<>>
    THEN [ret |-> <<"Could not summarize due to a content error", ": ">> \o LastSegment(text),
          gen |-> 0]
    ELSE IF out.raised
    THEN [ret |-> <<"ERROR", "_GEMINI", ": ">> \o out.text, gen |-> 1]
    ELSE [ret |-> out.text, gen |-> 1]

\* ret is the returned text, gen the number of model.generate_content calls
summarize_text_with_gemini(text, out) ==
    IF text = <<>> \/ StartsWithERROR(text)
    THEN [ret |-> <<"Could not summarize due to a content error", ": ">> \o LastSegment(text),
          gen |-> 0]
    ELSE IF out.raised
    THEN [ret |-> <<"ERROR", "_GEMINI", ": ">> \o out.text, gen |-> 1]
    ELSE [ret |-> out.text, gen |-> 1]

----------------------------------------------------------------------------
(* Initial state: a new session.  st.session_state is per session; the      *)
(* lru_cache belongs to the process, so a session starts either in a fresh  *)
(* process or in one whose cache earlier sessions have filled.              *)

NoClick == -1

NoCalls == [pt |-> <<>>, tl |-> <<>>, fetch |-> <<>>, summ |-> <<>>]

\* number of sessions calling fetch_url_text at the same time
NumSessions == 2

Sessions == 1..NumSessions

\* a session that is not inside fetch_url_text
NotCalling == [pc |-> "idle", url |-> Url(0, "", ""), value |-> <<>>, gets |-> 0]

\* the cache after fetch_url_text(LinkOf(2)), ..., fetch_url_text(LinkOf(maxsize + 1)),
\* the first of them having failed in the PDF parser
WarmCache ==
    [i \in 1..maxsize |->
        <<LinkOf(i + 1),
          FetchBody(LinkOf(i + 1),
                    CHOOSE r \in Network(LinkOf(i + 1)) : (i = 1) => ~r.pdf.ok)>>]

InitSession(cache) ==
    /\ current_lang = "English"
    /\ translations = ("English" :> UI_STRINGS_EN)
    /\ translated_strings = translations["English"]
    /\ summary_dict = <<>>
    /\ language_selector = "English"
    /\ lang_selector = "English"
    /\ search_query = ""
    /\ uploaded_files = <<>>
    /\ clicked = NoClick
    /\ buttons = {}
    /\ fetch_cache = cache
    /\ pc = "top"
    /\ loc_strings = translated_strings
    /\ df_columns = original_cols
    /\ calls = NoCalls
    /\ returned = [u \in {cache[i][1] : i \in 1..Len(cache)} |->
                     cache[CachePos(cache, u)][2]]
    /\ accessed = [i \in 1..Len(cache) |-> cache[i][1]]
    /\ summary_source = <<>>
    /\ cols_done = {}
    /\ widget_index = [top |-> "English", side |-> "English"]
    /\ threads = [s \in Sessions |-> NotCalling]

\* a session in either kind of process
Init == \E cache \in {<<>>, WarmCache} : InitSession(cache)

\* a session in a fresh process
InitFresh == InitSession(<<>>)

----------------------------------------------------------------------------
(* perform_translation(lang_choice), called by the sidebar callback and by  *)
(* the top selector at every run.                                           *)

\* PTSameLanguage handing out the English dictionary
PTSameLanguage_EnglishStrings(lang_choice, cur, trs) ==
    [current_lang |-> cur, translations |-> trs,
     translated_strings |-> trs["English"], gen |-> 0, failed |-> FALSE]

\* lines 176-178: the language is the current one and is cached
PTSameLanguage(lang_choice, cur, trs) ==
    [current_lang |-> cur, translations |-> trs,
     translated_strings |-> trs[lang_choice], gen |-> 0, failed |-> FALSE]

\* PTCached handing out the English dictionary instead of the stored one
PTCached_ReturnsEnglish(lang_choice, trs) ==
    [current_lang |-> lang_choice, translations |-> trs,
     translated_strings |-> trs["English"], gen |-> 0, failed |-> FALSE]

\* lines 186-187 and 193-194: another language, already cached
PTCached(lang_choice, trs) ==
    [current_lang |-> lang_choice, translations |-> trs,
     translated_strings |-> trs[lang_choice], gen |-> 0, failed |-> FALSE]

\* PTStore storing under the language that was current, not the chosen one
PTStore_UnderCurrentKey(lang_choice, trs, translated) ==
    [current_lang |-> lang_choice, translations |-> DictSet(trs, "English", translated),
     translated_strings |-> translated, gen |-> 1, failed |-> FALSE]

\* lines 190-194: the translation came back and is stored
PTStore(lang_choice, trs, translated) ==
    [current_lang |-> lang_choice, translations |-> DictSet(trs, lang_choice, translated),
     translated_strings |-> translated, gen |-> 1, failed |-> FALSE]

\* PTFallback also recording the substitute as the language's entry
PTFallback_CachesSubstitute(lang_choice, trs) ==
    [current_lang |-> "English", translations |-> DictSet(trs, lang_choice, trs["English"]),
     translated_strings |-> trs["English"], gen |-> 1, failed |-> TRUE]

\* lines 195-199: the except branch
PTFallback(lang_choice, trs) ==
    [current_lang |-> "English", translations |-> trs,
     translated_strings |-> trs["English"], gen |-> 1, failed |-> TRUE]

\* the session state perform_translation leaves, with the number of model
\* calls it made and whether it took the except branch; out is what the
\* model answers if it is called
PerformTranslation(lang_choice, cur, trs, out) ==
    IF lang_choice = cur /\ lang_choice \in DOMAIN trs
    THEN PTSameLanguage(lang_choice, cur, trs)
    ELSE IF lang_choice \in DOMAIN trs
    THEN PTCached(lang_choice, trs)
    ELSE LET r == translate_dict_via_gemini(trs["English"], lang_choice, out)
         IN  IF r.ok
             THEN PTStore(lang_choice, trs, r.val)
             ELSE PTFallback(lang_choice, trs)

perform_translation(lang_choice, next_pc) ==
    /\ pc' = next_pc
    /\ \E out \in GeminiDictOutcomes(lang_choice) :
         LET n == PerformTranslation(lang_choice, current_lang, translations, out)
         IN  /\ current_lang' = n.current_lang
             /\ translations' = n.translations
             /\ translated_strings' = n.translated_strings
             /\ calls' = [NoCalls EXCEPT !.pt =
                  <<[arg |-> lang_choice, ret |-> n.translated_strings,
                     gen |-> n.gen, failed |-> n.failed,
                     text |-> IF n.gen = 1 THEN out.text ELSE <<>>]>>]
    /\ UNCHANGED <<summary_dict, search_query, uploaded_files, clicked, buttons,
                   fetch_cache, loc_strings, df_columns, returned, accessed,
                   summary_source, cols_done, threads>>

\* on_change of the sidebar selectbox: sidebar_lang_changed
SidebarCallback ==
    /\ pc = "callback"
    /\ perform_translation(lang_selector, "top")
    /\ UNCHANGED <<language_selector, lang_selector, widget_index>>

\* st.selectbox(..., index=index_default, key=...): the values the widget can
\* return.  It returns the value kept under its key; when it is rendered
\* with another index than in the run before, Streamlit may take it for a
\* new widget, which returns options[index].
SelectboxValues(kept, index_default, index_before) ==
    IF index_default = index_before THEN {kept} ELSE {kept, index_default}

\* the top selectbox (lines 327-337) and the call at line 341
TopSelector ==
    /\ pc = "top"
    /\ \E lang_choice \in SelectboxValues(language_selector, current_lang,
                                          widget_index.top) :
         /\ language_selector' = lang_choice
         /\ perform_translation(lang_choice, "sidebar")
    /\ widget_index' = [widget_index EXCEPT !.top = current_lang]
    /\ UNCHANGED lang_selector

\* search_page up to the sidebar selectbox: the local translated_strings is
\* read, then current_lang is assigned the sidebar selectbox's value
SidebarSelector ==
    /\ pc = "sidebar"
    /\ loc_strings' = translated_strings
    /\ \E chosen \in SelectboxValues(lang_selector, current_lang, widget_index.side) :
         /\ lang_selector' = chosen
         /\ current_lang' = chosen
    /\ widget_index' = [widget_index EXCEPT !.side = current_lang]
    /\ calls' = NoCalls
    /\ pc' = "columns"
    /\ UNCHANGED <<translations, translated_strings, summary_dict, language_selector,
                   search_query, uploaded_files, clicked, buttons, fetch_cache,
                   df_columns, returned, accessed, summary_source, cols_done, threads>>

\* dict(zip(original_cols, translated_cols)) applied by df.rename
Rename(cols, translated_cols) ==
    [i \in 1..Len(cols) |->
        IF i <= Len(translated_cols) THEN translated_cols[i] ELSE cols[i]]

\* the fallback keeping the column names as they are
TranslatedPrefix_Original(item) == item

\* [f"Translated_{item}" for item in original_cols]
TranslatedPrefix(item) ==
    CASE item = "ID"    -> "Translated_ID"
      [] item = "Title" -> "Translated_Title"
      [] OTHER          -> "Translated_Link"

\* the column translation attempted whatever the language
ColumnsNeedTranslation_Always(lang) == TRUE

\* line 471
ColumnsNeedTranslation(lang) == lang # "English"

\* the column translation block of search_page
TranslateColumns ==
    /\ pc = "columns"
    /\ IF ColumnsNeedTranslation(current_lang)
       THEN \E out \in GeminiListOutcomes(current_lang) :
              LET r == translate_list_via_gemini(original_cols, current_lang, out)
                  translated_cols ==
                      IF r.ok THEN r.val
                      ELSE [i \in 1..Len(original_cols) |-> TranslatedPrefix(original_cols[i])]
              IN  /\ df_columns' = Rename(original_cols, translated_cols)
                  /\ cols_done' = IF r.ok THEN cols_done \cup {current_lang}
                                          ELSE cols_done
                  /\ calls' = [NoCalls EXCEPT !.tl =
                       <<[arg |-> current_lang, ok |-> r.ok,
                          ret |-> translated_cols, gen |-> 1, text |-> out.text]>>]
       ELSE /\ df_columns' = original_cols
            /\ cols_done' = cols_done
            /\ calls' = NoCalls
    /\ pc' = "pdfs"
    /\ UNCHANGED <<session_vars, widget_vars, clicked, buttons, fetch_cache,
                   loc_strings, returned, accessed, summary_source,
                   widget_index, threads>>

----------------------------------------------------------------------------
(* The uploaded PDFs of search_page.                                        *)

\* the files the user can upload: a.pdf with text, another a.pdf without
\* extractable text, and b.pdf which PyPDF2 cannot read
Uploads ==
    { [name |-> "a.pdf", ok |-> TRUE,  pages |-> << <<"uploaded page one">>, <<"uploaded page two">> >>],
      [name |-> "a.pdf", ok |-> TRUE,  pages |-> << <<>> >>],
      [name |-> "b.pdf", ok |-> FALSE, pages |-> <<>>] }

\* what the uploader can hold: nothing, one of the files, or a.pdf and b.pdf
UploadChoices ==
    {<<>>} \cup {<<f>> : f \in Uploads} \cup
    {<<f, g>> : f \in {u \in Uploads : u.name = "a.pdf" /\ u.pages # << <<>> >>},
                g \in {u \in Uploads : u.name = "b.pdf"}}

\* "".join([p.extract_text() or "" for p in pdf_reader.pages])
RECURSIVE ConcatPages(_)
ConcatPages(pages) ==
    IF pages = <<>> THEN <<>> ELSE Head(pages) \o ConcatPages(Tail(pages))

\* f"pdf_summary_{uploaded_file.name}"
PdfKey(name) == <<"pdf_summary_", name>>

\* the guard never holding: every run summarizes every uploaded file
PdfAlreadySummarized_Never(dict, summary_key) == FALSE

\* the guard letting a stored error be summarized again
PdfAlreadySummarized_UnlessError(dict, summary_key) ==
    summary_key \in DOMAIN dict /\ ~StartsWithERROR(dict[summary_key])

\* line 487: summary_key in st.session_state.summary_dict
PdfAlreadySummarized(dict, summary_key) == summary_key \in DOMAIN dict

\* the for loop over uploaded_files; outs are the model's outcomes in order.
\* PyPDF2.PdfReader raising is not caught: the run ends there.
RECURSIVE PdfLoop(_, _, _, _)
PdfLoop(files, outs, dict, log) ==
    IF files = <<>>
    THEN [dict |-> dict, crashed |-> FALSE, summ |-> log]
    ELSE LET uploaded_file == Head(files)
             summary_key == PdfKey(uploaded_file.name)
         IN  IF PdfAlreadySummarized(dict, summary_key)
             THEN PdfLoop(Tail(files), Tail(outs), dict, log)
             ELSE IF ~uploaded_file.ok
             THEN [dict |-> dict, crashed |-> TRUE, summ |-> log]
             ELSE LET text == ConcatPages(uploaded_file.pages)
                      summary == summarize_text_with_gemini(text, Head(outs))
                  IN  PdfLoop(Tail(files), Tail(outs),
                              DictSet(dict, summary_key, summary.ret),
                              Append(log, [key |-> summary_key, arg |-> text,
                                           ret |-> summary.ret, gen |-> summary.gen]))

PdfSummaries ==
    /\ pc = "pdfs"
    /\ \E outs \in [1..Len(uploaded_files) -> GeminiSummaryOutcomes] :
         LET res == PdfLoop(uploaded_files, outs, summary_dict, <<>>)
         IN  /\ summary_dict' = res.dict
             /\ calls' = [NoCalls EXCEPT !.summ = res.summ]
             /\ IF res.crashed
                THEN /\ pc' = "idle"
                     /\ buttons' = {}
                     /\ clicked' = NoClick
                ELSE /\ pc' = "search"
                     /\ UNCHANGED <<buttons, clicked>>
    /\ UNCHANGED <<current_lang, translations, translated_strings, widget_vars,
                   fetch_cache, loc_strings, df_columns, returned, accessed,
                   summary_source, cols_done,
                   widget_index, threads>>

----------------------------------------------------------------------------
(* The search, the result rows and the summarize buttons of search_page.    *)

\* 'title' in c.lower()
ContainsTitle(c) == c \in {"Title", "Translated_Title"}

\* 'link' in c.lower()
ContainsLink(c) == c \in {"Link", "Translated_Link"}

InCols(cols, c) == \E i \in 1..Len(cols) : cols[i] = c

\* lines 506-515
SearchColName(cols) ==
    IF InCols(original_cols, "Title") THEN "Title"
    ELSE IF \E i \in 1..Len(cols) : ContainsTitle(cols[i])
    THEN cols[CHOOSE i \in 1..Len(cols) :
                /\ ContainsTitle(cols[i])
                /\ \A j \in 1..(i-1) : ~ContainsTitle(cols[j])]
    ELSE cols[1]

\* line 517: df[search_col_name] finds the column
SearchColumnFound(cols) == Find(cols, SearchColName(cols)) > 0

\* line 533: a column whose name contains "Title" exists
TitleColumnFound(cols) == \E i \in 1..Len(cols) : ContainsTitle(cols[i])

\* line 546: row[original_cols[2]] finds the value
LinkValueFound(cols) == Find(cols, original_cols[3]) > 0

\* str.contains(search_query, case=False) on the cell at position pos of a row
CellContains(row, pos, query) == pos = 2 /\ query \in row[2]

\* the catalog row numbers of results_df, in order (reset_index makes the
\* n-th of them idx n-1)
Results(pos, query) ==
    SelectSeq([i \in 1..NumRows |-> i], LAMBDA i : CellContains(Catalog[i], pos, query))

\* f"summary_{idx}"
IdxStr(idx) == CASE idx = 0 -> "0" [] idx = 1 -> "1" [] idx = 2 -> "2" [] OTHER -> "n"
RowKey(idx) == <<"summary_", IdxStr(idx)>>

\* CachedFetch without the decorator: every call does the GET
CachedFetch_Undecorated(cache, url, r) ==
    [value |-> FetchBody(url, r),
     cache |-> IF CachePos(cache, url) > 0
               THEN RemoveAt(cache, CachePos(cache, url)) \o << <<url, FetchBody(url, r)>> >>
               ELSE CacheInsert(cache, url, FetchBody(url, r)),
     gets |-> 1,
     evicted |-> IF CachePos(cache, url) = 0 /\ Len(cache) >= maxsize
                 THEN {cache[1][1]} ELSE {}]

\* CachedFetch keeping successes only: an error result is returned but not stored
CachedFetch_ErrorsNotStored(cache, url, r) ==
    IF CachePos(cache, url) > 0
    THEN [value |-> cache[CachePos(cache, url)][2],
          cache |-> CacheHit(cache, url), gets |-> 0, evicted |-> {}]
    ELSE IF StartsWithERROR(FetchBody(url, r))
    THEN [value |-> FetchBody(url, r), cache |-> cache, gets |-> 1, evicted |-> {}]
    ELSE [value |-> FetchBody(url, r),
          cache |-> CacheInsert(cache, url, FetchBody(url, r)), gets |-> 1,
          evicted |-> IF Len(cache) >= maxsize THEN {cache[1][1]} ELSE {}]

\* the call through the lru_cache wrapper; r is what the network answers
\* if the call gets as far as the GET
CachedFetch(cache, url, r) ==
    IF CachePos(cache, url) > 0
    THEN [value |-> cache[CachePos(cache, url)][2],
          cache |-> CacheHit(cache, url), gets |-> 0, evicted |-> {}]
    ELSE [value |-> FetchBody(url, r),
          cache |-> CacheInsert(cache, url, FetchBody(url, r)), gets |-> 1,
          evicted |-> IF Len(cache) >= maxsize THEN {cache[1][1]} ELSE {}]

\* the urls the sessions ask for
SessionUrls == {LinkOf(1), LinkOf(2), LinkOf(3)}

\* a session calls fetch_url_text(url): the wrapper looks the url up; on a
\* hit it returns the stored value, on a miss it goes on to call the
\* function, outside of any lock
CallFetch(s) ==
    /\ threads[s].pc \in {"idle", "returned"}
    /\ \E url \in SessionUrls :
         IF CachePos(fetch_cache, url) > 0
         THEN /\ threads' = [threads EXCEPT ![s] =
                    [pc |-> "returned", url |-> url,
                     value |-> fetch_cache[CachePos(fetch_cache, url)][2], gets |-> 0]]
              /\ fetch_cache' = CacheHit(fetch_cache, url)
         ELSE /\ threads' = [threads EXCEPT ![s] =
                    [pc |-> "fetching", url |-> url, value |-> <<>>, gets |-> 1]]
              /\ fetch_cache' = fetch_cache
    /\ UNCHANGED <<session_vars, widget_vars, clicked, buttons, pc, loc_strings,
                   df_columns, calls, returned, accessed, summary_source, cols_done,
                   widget_index>>

\* the function returns in session s: the wrapper stores the result unless
\* the url has been stored by another call in the meantime, and returns the
\* result of this call either way
FinishFetch(s) ==
    /\ threads[s].pc = "fetching"
    /\ \E r \in Network(threads[s].url) :
         LET url == threads[s].url
             result == FetchBody(url, r)
         IN  /\ threads' = [threads EXCEPT ![s] =
                   [pc |-> "returned", url |-> url, value |-> result, gets |-> 1]]
             /\ fetch_cache' = IF CachePos(fetch_cache, url) > 0
                               THEN fetch_cache
                               ELSE CacheInsert(fetch_cache, url, result)
    /\ UNCHANGED <<session_vars, widget_vars, clicked, buttons, pc, loc_strings,
                   df_columns, calls, returned, accessed, summary_source, cols_done,
                   widget_index>>

\* the run ends with an uncaught exception
Crash ==
    /\ pc' = "idle"
    /\ buttons' = {}
    /\ clicked' = NoClick
    /\ calls' = NoCalls
    /\ UNCHANGED <<session_vars, widget_vars, fetch_cache, loc_strings,
                   df_columns, returned, accessed,
                   summary_source, cols_done,
                   widget_index, threads>>

\* the body of "if st.button(...)" for the row at position idx of the results
ClickBody(row, idx) ==
    LET summary_key == RowKey(idx)
        link_pos == Find(df_columns, original_cols[3])
    IN  /\ IF link_pos = 0
           THEN \* row[original_cols[2]] raises KeyError, caught at line 549
                /\ summary_dict' = DictSet(summary_dict, summary_key,
                                            <<"CRITICAL_", "ERROR", ": ", "'Link'">>)
                /\ calls' = NoCalls
                /\ UNCHANGED <<fetch_cache, returned, accessed>>
           ELSE \E r \in Network(row[link_pos]), out \in GeminiSummaryOutcomes :
                  LET url == row[link_pos]
                      f == CachedFetch(fetch_cache, url, r)
                      text == f.value
                      summary == summarize_text_with_gemini(text, out)
                  IN  /\ fetch_cache' = f.cache
                      /\ returned' = [u \in (DOMAIN returned \ f.evicted) \cup {url} |->
                                        IF u = url THEN f.value ELSE returned[u]]
                      /\ accessed' = SelectSeq(accessed, LAMBDA u : u # url) \o <<url>>
                      /\ summary_dict' = DictSet(summary_dict, summary_key, summary.ret)
                      /\ calls' = [NoCalls EXCEPT
                           !.fetch = <<[arg |-> url, ret |-> f.value, gets |-> f.gets,
                                        resp |-> IF f.gets = 1 THEN r ELSE NoResponse]>>,
                           !.summ = <<[key |-> summary_key, arg |-> text,
                                       ret |-> summary.ret, gen |-> summary.gen]>>]
        /\ summary_source' = DictSet(summary_source, summary_key, row[1])
        \* st.experimental_rerun()
        /\ pc' = "top"
        /\ clicked' = NoClick
        /\ buttons' = {}
        /\ UNCHANGED <<current_lang, translations, translated_strings, widget_vars,
                       loc_strings, df_columns, cols_done,
                       widget_index, threads>>

SearchResults ==
    /\ pc = "search"
    /\ IF search_query = ""
       THEN /\ pc' = "idle"
            /\ buttons' = {}
            /\ clicked' = NoClick
            /\ calls' = NoCalls
            /\ UNCHANGED <<session_vars, widget_vars, fetch_cache, loc_strings,
                           df_columns, returned, accessed,
                           summary_source, cols_done,
                           widget_index, threads>>
       ELSE LET search_col_name == SearchColName(df_columns)
                pos == Find(df_columns, search_col_name)
                results == Results(pos, search_query)
            IN  IF pos = 0
                THEN Crash          \* df[search_col_name] raises KeyError
                ELSE IF results = <<>>
                THEN /\ pc' = "idle"
                     /\ buttons' = {}
                     /\ clicked' = NoClick
                     /\ calls' = NoCalls
                     /\ UNCHANGED <<session_vars, widget_vars, fetch_cache,
                                    loc_strings, df_columns, returned, accessed,
                                    summary_source, cols_done,
                                    widget_index, threads>>
                ELSE IF ~\E i \in 1..Len(df_columns) : ContainsTitle(df_columns[i])
                THEN Crash          \* [...].tolist()[0] raises IndexError
                ELSE IF clicked \in 0..(Len(results) - 1)
                THEN ClickBody(Catalog[results[clicked + 1]], clicked)
                ELSE /\ pc' = "idle"
                     /\ buttons' = 0..(Len(results) - 1)
                     /\ clicked' = NoClick
                     /\ calls' = NoCalls
                     /\ UNCHANGED <<session_vars, widget_vars, fetch_cache,
                                    loc_strings, df_columns, returned, accessed,
                                    summary_source, cols_done,
                                    widget_index, threads>>

----------------------------------------------------------------------------
(* What the user does between runs; each starts a rerun of the script.      *)

SelectTopLanguage ==
    /\ pc = "idle"
    /\ \E l \in LANGUAGES \ {language_selector} : language_selector' = l
    /\ pc' = "top"
    /\ calls' = NoCalls
    /\ UNCHANGED <<session_vars, lang_selector, search_query, uploaded_files,
                   clicked, buttons, fetch_cache, loc_strings, df_columns, returned, accessed,
                   summary_source, cols_done,
                   widget_index, threads>>

SelectSidebarLanguage ==
    /\ pc = "idle"
    /\ \E l \in LANGUAGES \ {lang_selector} : lang_selector' = l
    /\ pc' = "callback"
    /\ calls' = NoCalls
    /\ UNCHANGED <<session_vars, language_selector, search_query, uploaded_files,
                   clicked, buttons, fetch_cache, loc_strings, df_columns, returned, accessed,
                   summary_source, cols_done,
                   widget_index, threads>>

TypeQuery ==
    /\ pc = "idle"
    /\ \E q \in Queries \ {search_query} : search_query' = q
    /\ pc' = "top"
    /\ calls' = NoCalls
    /\ UNCHANGED <<session_vars, language_selector, lang_selector, uploaded_files,
                   clicked, buttons, fetch_cache, loc_strings, df_columns, returned, accessed,
                   summary_source, cols_done,
                   widget_index, threads>>

UploadFiles ==
    /\ pc = "idle"
    /\ \E fs \in UploadChoices \ {uploaded_files} : uploaded_files' = fs
    /\ pc' = "top"
    /\ calls' = NoCalls
    /\ UNCHANGED <<session_vars, language_selector, lang_selector, search_query,
                   clicked, buttons, fetch_cache, loc_strings, df_columns, returned, accessed,
                   summary_source, cols_done,
                   widget_index, threads>>

ClickSummarize ==
    /\ pc = "idle"
    /\ \E idx \in buttons : clicked' = idx
    /\ pc' = "top"
    /\ calls' = NoCalls
    /\ UNCHANGED <<session_vars, widget_vars, buttons, fetch_cache, loc_strings,
                   df_columns, returned, accessed,
                   summary_source, cols_done,
                   widget_index, threads>>

Next ==
    \/ SelectTopLanguage
    \/ SelectSidebarLanguage
    \/ TypeQuery
    \/ UploadFiles
    \/ ClickSummarize
    \/ SidebarCallback
    \/ TopSelector
    \/ SidebarSelector
    \/ TranslateColumns
    \/ PdfSummaries
    \/ SearchResults

\* every user action
Spec == Init /\ [][Next]_vars

\* a run of the script from whatever position it is at
RunScript ==
    \/ TopSelector
    \/ SidebarSelector
    \/ TranslateColumns
    \/ PdfSummaries
    \/ SearchResults

\* the user changes languages and searches
NextLang ==
    \/ SelectTopLanguage
    \/ SelectSidebarLanguage
    \/ SidebarCallback
    \/ TypeQuery
    \/ RunScript

SpecLang == InitFresh /\ [][NextLang]_vars

\* the user searches, uploads and presses summarize buttons
NextSummary ==
    \/ TypeQuery
    \/ UploadFiles
    \/ ClickSummarize
    \/ RunScript

SpecSummary == InitFresh /\ [][NextSummary]_vars

\* the user searches and presses summarize buttons, in a fresh process or
\* in one whose cache is full
NextFetch ==
    \/ TypeQuery
    \/ ClickSummarize
    \/ RunScript

SpecFetch == Init /\ [][NextFetch]_vars

\* sessions of one process call fetch_url_text, each in its own thread
NextConcurrent ==
    \E s \in Sessions : CallFetch(s) \/ FinishFetch(s)

SpecConcurrent == Init /\ [][NextConcurrent]_vars

TypeOK ==
    /\ current_lang \in LANGUAGES
    /\ DOMAIN translations \subseteq LANGUAGES
    /\ pc \in {"idle", "callback", "top", "sidebar", "columns", "pdfs", "search"}
    /\ Len(fetch_cache) <= maxsize

----------------------------------------------------------------------------
(* Properties of the translation cache, checked under SpecLang.             *)

\* C3: when the translation of the UI dictionary into a language fails,
\* perform_translation returns the English dictionary and adds no entry for
\* the language to the translation cache, and a request for a language that
\* has no entry calls the model (again).
C3_FailedTranslationNotCached ==
    [][\A i \in 1..Len(calls'.pt) :
          LET c == calls'.pt[i]
          IN  /\ c.failed => /\ c.ret = UI_STRINGS_EN
                             /\ c.arg \notin DOMAIN translations'
                             /\ translations' = translations
              /\ c.arg \notin DOMAIN translations => c.gen = 1]_vars

\* a translation into Deutsch has just failed, after Dansk had been stored
C3_Witness ==
    /\ Len(calls.pt) = 1
    /\ calls.pt[1].failed
    /\ calls.pt[1].arg = "Deutsch"
    /\ "Dansk" \in DOMAIN translations
    /\ "Deutsch" \notin DOMAIN translations

\* C4: a model answer whose key set differs from the English dictionary's
\* makes the translation fail, so that every entry of the translation cache
\* has exactly the key set of the English UI dictionary.
C4_CachedKeySets ==
    \A l \in DOMAIN translations : DOMAIN translations[l] = DOMAIN UI_STRINGS_EN

\* C8: a request for English never calls the model, neither for the UI
\* dictionary nor for the column names, and perform_translation("English")
\* returns the untranslated English dictionary.
C8_EnglishNeverTranslated ==
    [][/\ \A i \in 1..Len(calls'.pt) :
            calls'.pt[i].arg = "English" =>
               /\ calls'.pt[i].gen = 0
               /\ ~calls'.pt[i].failed
               /\ calls'.pt[i].ret = UI_STRINGS_EN
       /\ \A i \in 1..Len(calls'.tl) : calls'.tl[i].arg # "English"
       /\ (pc = "columns" /\ current_lang = "English") => calls'.tl = <<>>]_vars

\* English has just been requested after another language was in use and a
\* translation had been stored
C8_Witness ==
    /\ Len(calls.pt) = 1
    /\ calls.pt[1].arg = "English"
    /\ pc = "sidebar"
    /\ lang_selector # "English"
    /\ DOMAIN translations # {"English"}

\* C10: the translation cache always has the entry "English", equal to the
\* untranslated English UI dictionary.
C10_EnglishEntryKept ==
    /\ "English" \in DOMAIN translations
    /\ translations["English"] = UI_STRINGS_EN

\* a translation has been stored and another one has just failed
C10_Witness ==
    /\ "Deutsch" \in DOMAIN translations
    /\ Len(calls.pt) = 1
    /\ calls.pt[1].failed
    /\ calls.pt[1].arg = "Dansk"

----------------------------------------------------------------------------
(* Properties of the fetch cache, checked under SpecFetch.                  *)

\* C1: a url requested again with no eviction of it since its last request
\* gets exactly the value returned then, and no network GET is made.
C1_SecondRequestFromCache ==
    [][\A i \in 1..Len(calls'.fetch) :
          LET c == calls'.fetch[i]
          IN  c.arg \in DOMAIN returned =>
                 /\ c.ret = returned[c.arg]
                 /\ c.gets = 0]_vars

\* a successful result has just been served again without a GET, in a cache
\* that has evicted another url in between
C1_Witness ==
    /\ Len(calls.fetch) = 1
    /\ calls.fetch[1].gets = 0
    /\ ~StartsWithERROR(calls.fetch[1].ret)
    /\ calls.fetch[1].ret # <<>>
    /\ Len(fetch_cache) = maxsize
    /\ CachePos(fetch_cache, LinkOf(3)) = 0

\* the error kind and the detail of an error result "ERROR<kind>: <detail>"
ErrorKind(value) == value[2]
ErrorDetail(value) == SubSeq(value, 4, Len(value))

\* C2: an error result is stored in the fetch cache like a success:
\* requesting the url again while it is cached returns the same error kind
\* and detail and makes no GET, whatever the network would answer now.
C2_ErrorsAreCached ==
    [][\A i \in 1..Len(calls'.fetch) :
          LET c == calls'.fetch[i]
              pos == CachePos(fetch_cache', c.arg)
          IN  /\ StartsWithERROR(c.ret) =>
                    /\ pos > 0
                    /\ fetch_cache'[pos][2] = c.ret
              /\ (c.arg \in DOMAIN returned /\ StartsWithERROR(returned[c.arg])) =>
                    /\ StartsWithERROR(c.ret)
                    /\ ErrorKind(c.ret) = ErrorKind(returned[c.arg])
                    /\ ErrorDetail(c.ret) = ErrorDetail(returned[c.arg])
                    /\ c.gets = 0]_vars

\* a cached ERROR_FETCH has just been served again without a GET although
\* the network could have answered with a page
C2_Witness ==
    /\ Len(calls.fetch) = 1
    /\ calls.fetch[1].gets = 0
    /\ StartsWithERROR(calls.fetch[1].ret)
    /\ ErrorKind(calls.fetch[1].ret) = "_FETCH"
    /\ \E r \in Network(calls.fetch[1].arg) :
          ~StartsWithERROR(FetchBody(calls.fetch[1].arg, r))

CachedUrls(cache) == {cache[i][1] : i \in 1..Len(cache)}

\* the cached url whose last call of fetch_url_text is the oldest
LeastRecentlyAccessed(cache) ==
    CHOOSE u \in CachedUrls(cache) :
       \A v \in CachedUrls(cache) : Find(accessed, u) <= Find(accessed, v)

\* C9: the fetch cache never holds more than maxsize entries; a result for a
\* new url put into a full cache evicts exactly one entry, the least
\* recently accessed one, a hit counting as an access; nothing else evicts.
C9_BoundedLeastRecentlyUsed ==
    [][/\ Len(fetch_cache') <= maxsize
       /\ Cardinality(CachedUrls(fetch_cache')) = Len(fetch_cache')
       /\ \A i \in 1..Len(calls'.fetch) :
            LET c == calls'.fetch[i]
                old == CachedUrls(fetch_cache)
                new == CachedUrls(fetch_cache')
            IN  IF c.arg \in old
                THEN new = old
                ELSE IF Len(fetch_cache) = maxsize
                THEN new = (old \ {LeastRecentlyAccessed(fetch_cache)}) \cup {c.arg}
                ELSE new = old \cup {c.arg}
       /\ calls'.fetch = <<>> => fetch_cache' = fetch_cache]_vars

\* a new url has just been put into the full cache; the entry that had been
\* hit before is still there and the one after it was evicted
C9_Witness ==
    /\ Len(calls.fetch) = 1
    /\ calls.fetch[1].gets = 1
    /\ Len(fetch_cache) = maxsize
    /\ CachePos(fetch_cache, LinkOf(2)) > 0
    /\ CachePos(fetch_cache, LinkOf(3)) = 0

----------------------------------------------------------------------------
(* Properties of the summarizer and the summary cache, checked under        *)
(* SpecSummary.                                                             *)

\* line 560: the display takes the failure branch
ShownAsFailure(summary_content) ==
    StartsWithERROR(summary_content) \/ StartsWithCRITICAL(summary_content)

IsContentError(summary) ==
    /\ Len(summary) >= 2
    /\ summary[1] = "Could not summarize due to a content error"
    /\ summary[2] = ": "

\* C5: summarize applied to the empty text or to a text that starts with
\* ERROR returns a content-error result and does not call the model.
C5_ContentErrorShortCircuit ==
    \A i \in 1..Len(calls.summ) :
       LET c == calls.summ[i]
       IN  (c.arg = <<>> \/ StartsWithERROR(c.arg)) =>
              /\ c.gen = 0
              /\ IsContentError(c.ret)

\* the summarizer has just been given an ERROR_FETCH text, and had earlier
\* been given the empty text of an uploaded a.pdf
C5_Witness ==
    /\ Len(calls.summ) = 1
    /\ StartsWithERROR(calls.summ[1].arg)
    /\ calls.summ[1].arg[2] = "_FETCH"
    /\ PdfKey("a.pdf") \in DOMAIN summary_dict
    /\ summary_dict[PdfKey("a.pdf")] =
          <<"Could not summarize due to a content error", ": ">>

----------------------------------------------------------------------------
(* Properties of the pipeline run by a summarize button: fetch, extraction, *)
(* summarizer and display, checked under SpecFetch.                         *)

\* C11: when the fetch or the extraction of a catalog row has failed, or the
\* model call has failed, the value stored for the row starts with one of
\* the sentinel prefixes, so that the display shows it as a failure.
C11_FailuresShownAsFailures ==
    \A i \in 1..Len(calls.summ) :
       LET c == calls.summ[i]
       IN  (/\ c.key[1] = "summary_"
            /\ \/ StartsWithERROR(c.arg)
               \/ c.gen = 1 /\ StartsWithERROR(c.ret)) =>
              ShownAsFailure(summary_dict[c.key])

C13_SummaryShownIsOfRow ==
    (pc = "idle" /\ buttons # {}) =>
       LET results == Results(Find(df_columns, SearchColName(df_columns)), search_query)
       IN  \A idx \in buttons :
              RowKey(idx) \in DOMAIN summary_dict =>
                 summary_source[RowKey(idx)] = Catalog[results[idx + 1]][1]

\* C14: the content-error result for a text "ERROR<kind>: <detail>" carries
\* the whole detail, also when the detail contains ": ".
C14_ContentErrorKeepsDetail ==
    \A i \in 1..Len(calls.summ) :
       LET c == calls.summ[i]
       IN  (StartsWithERROR(c.arg) /\ Len(c.arg) >= 3 /\ c.arg[3] = ": ") =>
              c.ret = <<"Could not summarize due to a content error", ": ">>
                         \o ErrorDetail(c.arg)

\* C15: after a successful response the result is the PDF branch's if the
\* content type names pdf or the path of the url ends with .pdf in any
\* letter case, a query string after the path notwithstanding, and the HTML
\* branch's otherwise.
C15_PdfBranchByTypeOrPath ==
    \A i \in 1..Len(calls.fetch) :
       LET c == calls.fetch[i]
           r == c.resp
       IN  (c.gets = 1 /\ ~r.raised /\ r.status \in 200..299) =>
              c.ret = IF \/ PdfInContentType(LowerContentType(r.header))
                         \/ Lower(c.arg.ext) = ".pdf"
                      THEN PdfBranch(r)
                      ELSE HtmlBranch(r)

----------------------------------------------------------------------------
(* Properties of the translation of the column names and of the parsing of  *)
(* the model's answers, checked under SpecLang.                             *)

\* C16: the list the columns are renamed from always has the length of the
\* list of column names: an answer of another length counts as a failure.
C16_LengthMismatchRejected ==
    \A i \in 1..Len(calls.tl) :
       /\ Len(calls.tl[i].ret) = Len(original_cols)
       /\ \A j \in 1..Len(original_cols) : df_columns[j] = calls.tl[i].ret[j]

\* C17: once the column names have been translated into a language, a later
\* run in that language does not call the model for them.
C17_ColumnsMemoized ==
    [][\A i \in 1..Len(calls'.tl) :
          calls'.tl[i].arg \in cols_done => calls'.tl[i].gen = 0]_vars

\* C18: an entry of the translation cache is never replaced or removed, and
\* a request for a language that has an entry returns that entry, makes it
\* the displayed dictionary and does not call the model.
C18_StoredTranslationKept ==
    [][/\ \A l \in DOMAIN translations :
            /\ l \in DOMAIN translations'
            /\ translations'[l] = translations[l]
       /\ \A i \in 1..Len(calls'.pt) :
            LET c == calls'.pt[i]
            IN  c.arg \in DOMAIN translations =>
                   /\ c.gen = 0
                   /\ ~c.failed
                   /\ c.ret = translations[c.arg]
                   /\ translated_strings' = translations[c.arg]]_vars

\* Deutsch, stored earlier, has just been requested again and served without
\* the model, coming back from Dansk, whose translation had failed
C18_Witness ==
    /\ pc = "sidebar"
    /\ Len(calls.pt) = 1
    /\ calls.pt[1].arg = "Deutsch"
    /\ calls.pt[1].gen = 0
    /\ calls.pt[1].ret = translations["Deutsch"]
    /\ calls.pt[1].ret # UI_STRINGS_EN
    /\ lang_selector = "Dansk"
    /\ "Dansk" \notin DOMAIN translations

\* C19 as stated: when the translation of the column names fails, the
\* columns keep their original names.
C19_FallbackToOriginal ==
    \A i \in 1..Len(calls.tl) :
       ~calls.tl[i].ok => df_columns = original_cols

\* C19 amended: when the translation of the column names fails, every column
\* is renamed to "Translated_" followed by its original name.
C19_FallbackToPrefixed ==
    \A i \in 1..Len(calls.tl) :
       ~calls.tl[i].ok =>
          /\ calls.tl[i].ret = <<"Translated_ID", "Translated_Title", "Translated_Link">>
          /\ df_columns = <<"Translated_ID", "Translated_Title", "Translated_Link">>

\* the translation of the column names into Dansk has just failed on an
\* answer without an array
C19_Witness ==
    /\ pc = "pdfs"
    /\ Len(calls.tl) = 1
    /\ calls.tl[1].arg = "Dansk"
    /\ ~calls.tl[1].ok
    /\ calls.tl[1].text = <<"txt">>

\* C20: when the first "{" of the model's answer opens a well-formed object
\* (the first "[" a well-formed array, for the column names), the parsed
\* result is that object (array), whatever prose follows it.
C20_FirstBalancedSpan ==
    /\ \A i \in 1..Len(calls.pt) :
          LET c == calls.pt[i]
              start == Find(c.text, "{")
          IN  (/\ start > 0
               /\ start + 2 <= Len(c.text)
               /\ c.text[start + 1] \in DOMAIN ObjectBody
               /\ c.text[start + 2] = "}") =>
                 /\ ~c.failed
                 /\ c.ret = ObjectBody[c.text[start + 1]]
    /\ \A i \in 1..Len(calls.tl) :
          LET c == calls.tl[i]
              start == Find(c.text, "[")
          IN  (/\ start > 0
               /\ start + 2 <= Len(c.text)
               /\ c.text[start + 1] \in DOMAIN ArrayBody
               /\ c.text[start + 2] = "]") =>
                 /\ c.ok
                 /\ c.ret = ArrayBody[c.text[start + 1]]

----------------------------------------------------------------------------
(* Concurrent calls of fetch_url_text, checked under SpecConcurrent.        *)

\* C21: concurrent requests for one url are coalesced: no two sessions are
\* in the GET for the same url at the same time, and two sessions that hold
\* a result for the same url hold the same result.
C21_ConcurrentRequestsCoalesced ==
    \A s, t \in Sessions :
       (s # t /\ threads[s].url = threads[t].url) =>
          /\ ~(threads[s].pc = "fetching" /\ threads[t].pc = "fetching")
          /\ (threads[s].pc = "returned" /\ threads[t].pc = "returned") =>
                threads[s].value = threads[t].value

----------------------------------------------------------------------------
(* Properties of the language state and of the rendering of the results,    *)
(* checked under SpecLang.                                                  *)

\* C22: when perform_translation has returned, by whichever branch,
\* current_lang is a key of the translation cache, translated_strings is the
\* entry for current_lang and is what was returned, and current_lang is
\* "English" if the translation failed.
C22_ConsistentOnReturn ==
    \A i \in 1..Len(calls.pt) :
       /\ current_lang \in DOMAIN translations
       /\ translated_strings = translations[current_lang]
       /\ calls.pt[i].ret = translated_strings
       /\ calls.pt[i].failed => current_lang = "English"

\* perform_translation("Dansk") has just stored a translation, having been
\* called while current_lang was Deutsch, which has no entry
C22_Witness ==
    /\ pc = "sidebar"
    /\ Len(calls.pt) = 1
    /\ calls.pt[1].arg = "Dansk"
    /\ calls.pt[1].gen = 1
    /\ ~calls.pt[1].failed
    /\ current_lang = "Dansk"
    /\ widget_index.top = "Deutsch"
    /\ "Deutsch" \notin DOMAIN translations

\* C23: at the end of a run that was not ended by an exception,
\* translated_strings is the entry of the translation cache for
\* current_lang, and the columns have been renamed exactly if the strings
\* the page was drawn with are not the English ones.
C23_LanguageAndStringsAgree ==
    [][(/\ pc = "search"
        /\ pc' = "idle"
        /\ \/ search_query = ""
           \/ /\ SearchColumnFound(df_columns)
              /\ \/ Results(Find(df_columns, SearchColName(df_columns)),
                             search_query) = <<>>
                 \/ TitleColumnFound(df_columns)) =>
          /\ current_lang' \in DOMAIN translations'
          /\ translated_strings' = translations'[current_lang']
          /\ (df_columns' # original_cols) <=> (loc_strings' # UI_STRINGS_EN)]_vars

\* C24: whatever the language and the outcome of the translation of the
\* column names, the rendering of the results of a search finds the column
\* to search in, and for the result rows a title column and the value of
\* the original Link column.
C24_RenderingFindsColumns ==
    (pc = "search" /\ search_query # "") =>
       /\ SearchColumnFound(df_columns)
       /\ Results(Find(df_columns, SearchColName(df_columns)), search_query) # <<>> =>
             /\ TitleColumnFound(df_columns)
             /\ LinkValueFound(df_columns)

====
